---- MODULE Spec2Model ----
(***************************************************************************)
(* A model of the backend generator: the rule validator (src/validator.js),*)
(* the CLI run (index.js), the filesystem generator (src/generator.js),    *)
(* the archive generator (src/lib/template-generator.js) and the in-memory *)
(* web generator (src/lib/web-generator.js).                               *)
(*                                                                         *)
(* A JavaScript string that the code inspects character by character (the  *)
(* project name) is a sequence of one-character strings; every other       *)
(* string is a TLA+ string.  A JavaScript object is a record whose DOMAIN  *)
(* holds exactly the properties that are present: reading an absent        *)
(* property yields undefined in the code, and "f \notin DOMAIN c" here.    *)
(***************************************************************************)
EXTENDS Integers, Sequences, FiniteSets, TLC

VARIABLES
  config,      \* the configuration object handed to the program under study
  pc,          \* the position of the run
  validation,  \* what validateConfig produced: a result value, or a throw
  console,     \* the lines written to the console, oldest first
  dirs,        \* the disk: the directories that exist
  files,       \* the disk: path -> content of every file that exists
  writeLog,    \* every file path handed to a successful write, in call order
  error,       \* the error generateBackend rejected with (NoError: none)
  before,      \* the disk as it was when the run started
  proceed,     \* the answer to "Proceed with generation?"
  exitCode,    \* the process exit code (-1: still running)
  zip,         \* the archive: the (path, content) of every zip.file call
  saved,       \* the name the archive was saved under ("": not saved)
  webFiles,    \* the files object generateWebBackend returned
  wizard,      \* the web page: Home's and the mounted Configurator's state
  race         \* two concurrent generateBackend runs: each run's position

vars == <<config, pc, validation, console, dirs, files, writeLog, error,
          before, proceed, exitCode, zip, saved, webFiles, wizard, race>>

(***************************************************************************)
(* Bounds of the model.                                                    *)
(***************************************************************************)
\* The longest project name drawn as an input.
MaxNameLen == 2

(***************************************************************************)
(* Sequences.                                                              *)
(***************************************************************************)
Range(s) == {s[i] : i \in DOMAIN s}

\* Array.prototype.includes
includes(array, item) == \E i \in DOMAIN array : array[i] = item

\* The sequences over S of length at most n.
SeqsUpTo(S, n) == UNION {[1..k -> S] : k \in 0..n}

RECURSIVE SelectFrom(_, _)
\* The members of list s that lie in set S, in the order of s.
SelectFrom(s, S) ==
  IF s = <<>> THEN <<>>
  ELSE IF Head(s) \in S THEN <<Head(s)>> \o SelectFrom(Tail(s), S)
       ELSE SelectFrom(Tail(s), S)

\* Whether s holds no element twice.
NoDuplicates(s) == \A i, j \in DOMAIN s : s[i] = s[j] => i = j

(***************************************************************************)
(* Characters and the project-name tests.                                  *)
(***************************************************************************)
LetterChars == {"a", "z", "Z"}
DigitChars == {"7"}
WhitespaceChars == {" "}
\* The characters project names are drawn from: a letter, a digit, a
\* hyphen, a blank and a character no identifier pattern admits.
Alphabet == {"a", "7", "-", " ", "!"}

RECURSIVE TrimStart(_)
TrimStart(s) ==
  IF s # <<>> /\ Head(s) \in WhitespaceChars THEN TrimStart(Tail(s)) ELSE s

RECURSIVE TrimEnd(_)
TrimEnd(s) ==
  IF s # <<>> /\ s[Len(s)] \in WhitespaceChars
  THEN TrimEnd(SubSeq(s, 1, Len(s) - 1)) ELSE s

\* String.prototype.trim
trim(s) == TrimEnd(TrimStart(s))

\* /^[a-zA-Z0-9-_]+$/.test(input): the CLI prompt's own check of the name.
PromptNamePattern(s) ==
  /\ Len(s) >= 1
  /\ \A i \in DOMAIN s : s[i] \in LetterChars \cup DigitChars \cup {"-", "_"}

\* The prompt's validate callback: true, or the message it answers with.
PromptAccepts(s) == trim(s) # <<>> /\ PromptNamePattern(s)

\* ^[A-Za-z][A-Za-z0-9_-]*$ : the identifier pattern of the data model.
IdentifierPattern(s) ==
  /\ Len(s) >= 1
  /\ s[1] \in LetterChars
  /\ \A i \in 2..Len(s) : s[i] \in LetterChars \cup DigitChars \cup {"-", "_"}

(***************************************************************************)
(* The vocabularies of the CLI prompts.                                    *)
(***************************************************************************)
FrameworkChoices == {"express", "fastify", "koa"}
DatabaseChoices == {"mongodb", "postgresql", "mysql", "sqlite"}
\* The checkbox's values in the order the prompt declares them.
FeatureChoices ==
  <<"jwt", "otp", "redis", "rateLimit", "passwordReset", "uploads", "docs",
    "logging", "validation", "cors", "helmet">>
EmailChoices == {"mailtrap", "resend", "nodemailer", "none"}
FrontendChoices == {"react-vite", "nextjs", "vue", "none"}

\* A checkbox answer: the selected values in declaration order.
FeatureLists(tokens) == {SelectFrom(FeatureChoices, S) : S \in SUBSET tokens}

(***************************************************************************)
(* validateConfig.                                                         *)
(***************************************************************************)
MsgName == "Project name is required"
MsgFramework == "Framework is required"
MsgDatabase == "Database is required"
MsgOtp == "OTP verification requires JWT authentication"
MsgReset == "Password reset requires JWT authentication"
MsgEmail == "Email service is required for OTP and password reset features"
MsgMongo == "MongoDB integration currently only supports Express.js"
MsgRedisWarning ==
  "Warning: Using Redis with SQLite might be overkill for simple applications"

\* A property read used as a condition: absent (undefined) and "" are falsy.
Truthy(c, f) == f \in DOMAIN c /\ c[f] # ""

\* The same for the project name, whose empty string is the empty sequence.
TruthyName(c) == "projectName" \in DOMAIN c /\ c.projectName # <<>>

\* c[f] === v, where an absent property is undefined and equals no string.
Is(c, f, v) == f \in DOMAIN c /\ c[f] = v

\* !config.projectName || !config.projectName.trim()
NameMissing(c) == ~TruthyName(c) \/ trim(c.projectName) = <<>>

\* config.features.includes(...) raises a TypeError when features is absent.
ValidateThrows(c) == "features" \notin DOMAIN c

\* Lines 5-15: the presence checks.
BasicErrors(c) ==
     (IF NameMissing(c) THEN <<MsgName>> ELSE <<>>)
  \o (IF ~Truthy(c, "framework") THEN <<MsgFramework>> ELSE <<>>)
  \o (IF ~Truthy(c, "database") THEN <<MsgDatabase>> ELSE <<>>)

\* Lines 18-24: each of 'otp' and 'passwordReset' needs 'jwt'.
DependencyErrors(c) ==
  LET has(t) == includes(c.features, t) IN
     (IF has("otp") /\ ~has("jwt") THEN <<MsgOtp>> ELSE <<>>)
  \o (IF has("passwordReset") /\ ~has("jwt") THEN <<MsgReset>> ELSE <<>>)

\* Lines 26-29: 'otp' and 'passwordReset' need an email service.
EmailErrors(c) ==
  LET has(t) == includes(c.features, t) IN
  IF (has("otp") \/ has("passwordReset"))
     /\ (~Truthy(c, "emailService") \/ Is(c, "emailService", "none"))
  THEN <<MsgEmail>> ELSE <<>>

\* Lines 37-39: MongoDB only with Express.
CompatibilityErrors(c) ==
  IF ~Is(c, "framework", "express") /\ Is(c, "database", "mongodb")
  THEN <<MsgMongo>> ELSE <<>>

\* The errors array after every check ran, in push order.
ValidateErrors(c) ==
  BasicErrors(c) \o DependencyErrors(c) \o EmailErrors(c)
    \o CompatibilityErrors(c)

\* The console.warn of the SQLite check.
ValidateWarnings(c) ==
  IF Is(c, "database", "sqlite") /\ includes(c.features, "redis")
  THEN <<MsgRedisWarning>> ELSE <<>>

\* The outcome of one call: the returned {valid, errors} and what was
\* printed, or a throw (of the first features read) with nothing returned.
validateConfig(c) ==
  IF ValidateThrows(c)
  THEN [threw |-> TRUE, valid |-> FALSE, errors |-> <<>>, warnings |-> <<>>]
  ELSE [threw |-> FALSE,
        valid |-> Len(ValidateErrors(c)) = 0,
        errors |-> ValidateErrors(c),
        warnings |-> ValidateWarnings(c)]

\* Console lines of one level, one for each text.
Lines(level, texts) ==
  [i \in DOMAIN texts |-> [level |-> level, text |-> texts[i], detail |-> <<>>]]

\* An object with the properties K of r only.
Restrict(r, K) == [f \in K |-> r[f]]

NotValidated == [threw |-> FALSE, valid |-> FALSE, errors |-> <<"(none)">>,
                 warnings |-> <<>>]

(***************************************************************************)
(* The idle values of the state the run under study does not touch.        *)
(***************************************************************************)
NoPath == [root |-> <<>>, segs |-> <<>>]
NoError == [code |-> "", path |-> NoPath, message |-> <<>>]
NoFiles == [p \in {} |-> ""]
EmptyDisk == [dirs |-> {}, files |-> NoFiles]
\* The web page is not open; no concurrent runs were started.
NoWizard == [view |-> "closed"]
NoRace == <<>>

Idle ==
  /\ validation = NotValidated
  /\ console = <<>>
  /\ dirs = {}
  /\ files = NoFiles
  /\ writeLog = <<>>
  /\ error = NoError
  /\ before = EmptyDisk
  /\ proceed = FALSE
  /\ exitCode = -1
  /\ zip = <<>>
  /\ saved = ""
  /\ webFiles = <<>>
  /\ wizard = NoWizard
  /\ race = NoRace

(***************************************************************************)
(* Specification SpecValidate: validateConfig called on a configuration    *)
(* object.                                                                 *)
(***************************************************************************)
ConfigFields ==
  {"projectName", "framework", "database", "features", "emailService"}

\* The feature tokens validateConfig reads, and one it never reads.
ValidatorTokens == {"jwt", "otp", "passwordReset", "redis", "cors"}

Names == SeqsUpTo(Alphabet, MaxNameLen)

\* Configuration objects: every property may be absent.  The objects vary
\* the project name over all Names, or the selections over their enums.
ValidateInputs ==
  LET byName == [projectName : Names,
                 framework : {"express"},
                 database : {"mongodb", "sqlite"},
                 features : {<<>>, <<"otp">>},
                 emailService : {"none"}]
      bySelection == [projectName : {<<"a">>, <<"7">>},
                      framework : FrameworkChoices,
                      database : DatabaseChoices \cup {"none"},
                      features : FeatureLists(ValidatorTokens),
                      emailService : EmailChoices]
  IN {Restrict(r, K) : r \in byName \cup bySelection, K \in SUBSET ConfigFields}

InitValidate ==
  /\ config \in ValidateInputs
  /\ pc = "validate"
  /\ Idle

\* One call of validateConfig(config).
Validate ==
  /\ pc = "validate"
  /\ validation' = validateConfig(config)
  /\ console' = console \o Lines("warn", validateConfig(config).warnings)
  /\ pc' = IF validateConfig(config).threw THEN "threw" ELSE "validated"
  /\ UNCHANGED <<config, dirs, files, writeLog, error, before, proceed,
                 exitCode, zip, saved, webFiles,
                 wizard, race>>

NextValidate == Validate

SpecValidate == InitValidate /\ [][NextValidate]_vars

(***************************************************************************)
(* The disk.  A path is the directory it hangs under in the working        *)
(* directory (root: the project name for the output, src for the           *)
(* templates) and its segments below that.                                 *)
(***************************************************************************)
\* path.resolve(process.cwd(), config.projectName) and path.join under it.
ProjectPath(c, segs) == [root |-> c.projectName, segs |-> segs]

\* The directory the templates are read from: <cwd>/src/templates.
SrcDir == <<"s", "r", "c">>
TemplatePath(t) == [root |-> SrcDir, segs |-> <<"templates">> \o t]

Parent(p) == [root |-> p.root, segs |-> SubSeq(p.segs, 1, Len(p.segs) - 1)]

\* A directory and the directories above it, up to its root.
Ancestors(p) ==
  {[root |-> p.root, segs |-> SubSeq(p.segs, 1, k)] : k \in 0..Len(p.segs)}

\* fs.pathExists: a directory or a file.
pathExistsNever(d, f, p) == FALSE
pathExists(d, f, p) == p \in d \/ p \in DOMAIN f

\* The content of a file: what it was produced from, and for a package.json
\* its name, dependencies and scripts.
Content(source, name, deps, dev, scripts) ==
  [source |-> source, name |-> name, deps |-> deps, dev |-> dev,
   scripts |-> scripts]

\* Handlebars.compile(template)(config)
Rendered(c, t) == Content(t[Len(t)], c.projectName, {}, {}, {})

\* A file that was on the disk before the run.
OldContent == Content("(pre-existing)", <<>>, {}, {}, {})

EnsureDir(p) == [op |-> "ensureDir", path |-> p, content |-> OldContent]
ReadFile(p) == [op |-> "readFile", path |-> p, content |-> OldContent]
WriteFile(p, content) == [op |-> "writeFile", path |-> p, content |-> content]

\* readFile of a template, compile, writeFile of the result.
Render(c, t, out) ==
  <<ReadFile(TemplatePath(t)), WriteFile(ProjectPath(c, out), Rendered(c, t))>>

\* Whether the disk lets the operation succeed.
CanSucceed(st, op) ==
  CASE op.op = "ensureDir" -> \A a \in Ancestors(op.path) : a \notin DOMAIN st.files
    [] op.op = "readFile" -> TRUE
    [] op.op = "writeFile" -> Parent(op.path) \in st.dirs /\ op.path \notin st.dirs

\* The disk and the write log after the operation succeeded.
ApplyOp(st, op) ==
  CASE op.op = "ensureDir" ->
         [st EXCEPT !.dirs = st.dirs \cup Ancestors(op.path)]
    [] op.op = "readFile" -> st
    [] op.op = "writeFile" ->
         [st EXCEPT
            !.files = [q \in DOMAIN st.files \cup {op.path} |->
                         IF q = op.path THEN op.content ELSE st.files[q]],
            !.log = Append(st.log, [path |-> op.path, content |-> op.content])]

RECURSIVE ApplyOps(_, _)
\* The operations in order; ok is FALSE once one of them cannot succeed.
ApplyOps(st, ops) ==
  IF ops = <<>> \/ ~st.ok THEN st
  ELSE IF CanSucceed(st, Head(ops))
       THEN ApplyOps(ApplyOp(st, Head(ops)), Tail(ops))
       ELSE [st EXCEPT !.ok = FALSE]

\* The error a failed filesystem call rejects with: fs errors carry the
\* path of the call and a message naming it.
IOError(op) ==
  [code |-> "EIO", path |-> op.path, message |-> <<op.op, op.path>>]

\* new Error(`Directory '${config.projectName}' already exists`)
ExistsError(c) ==
  [code |-> "", path |-> NoPath,
   message |-> <<"Directory already exists", c.projectName>>]

(***************************************************************************)
(* generateBackend: the filesystem calls of each of its steps.             *)
(***************************************************************************)
Has(c, t) == includes(c.features, t)

\* The dependencies object written to package.json.
Dependencies(c) ==
  {"express", "dotenv", "bcrypt", "jsonwebtoken", "helmet", "cors",
   "express-rate-limit", "express-validator", "cookie-parser",
   "devdad-express-utils"}
  \cup (IF Is(c, "database", "mongodb") THEN {"mongoose"}
        ELSE IF ~Is(c, "database", "sqlite") THEN {"@prisma/client", "prisma"}
        ELSE {})
  \cup (IF Has(c, "redis")
        THEN {"ioredis", "rate-limit-redis", "rate-limiter-flexible"} ELSE {})
  \cup (IF Has(c, "otp") \/ Has(c, "passwordReset")
        THEN (IF Is(c, "emailService", "mailtrap") THEN {"mailtrap"}
              ELSE IF Is(c, "emailService", "resend") THEN {"resend"}
              ELSE IF Is(c, "emailService", "nodemailer") THEN {"nodemailer"}
              ELSE {})
        ELSE {})
  \cup (IF Has(c, "uploads") THEN {"multer"} ELSE {})
  \cup (IF Has(c, "docs") THEN {"swagger-jsdoc", "swagger-ui-express"} ELSE {})

DevDependencies(c) ==
  {"nodemon", "@types/node"}
  \cup (IF Has(c, "uploads") THEN {"@types/multer"} ELSE {})
  \cup (IF Has(c, "docs")
        THEN {"@types/swagger-jsdoc", "@types/swagger-ui-express"} ELSE {})

Scripts(c) ==
  {"start", "dev"}
  \cup (IF ~Is(c, "database", "mongodb")
        THEN {"db:generate", "db:push", "db:migrate", "db:studio"} ELSE {})

PackageJsonOps(c) ==
  <<WriteFile(ProjectPath(c, <<"package.json">>),
              Content("package.json", c.projectName, Dependencies(c),
                      DevDependencies(c), Scripts(c)))>>

ServerOps(c) ==
  <<EnsureDir(ProjectPath(c, <<"src">>))>>
  \o Render(c, <<"server.hbs">>, <<"src", "server.js">>)
  \o Render(c, <<"app.hbs">>, <<"src", "app.js">>)

MongooseOps(c) ==
  <<EnsureDir(ProjectPath(c, <<"src", "models">>))>>
  \o Render(c, <<"models", "User.mongoose.hbs">>,
            <<"src", "models", "User.model.js">>)
  \o (IF Has(c, "jwt")
      THEN Render(c, <<"models", "RefreshToken.mongoose.hbs">>,
                  <<"src", "models", "RefreshToken.model.js">>)
      ELSE <<>>)

PrismaOps(c) ==
  <<EnsureDir(ProjectPath(c, <<"prisma">>))>>
  \o Render(c, <<"prisma", "schema.hbs">>, <<"prisma", "schema.prisma">>)
  \o <<EnsureDir(ProjectPath(c, <<"src", "utils">>))>>
  \o Render(c, <<"utils", "prisma.hbs">>, <<"src", "utils", "prisma.js">>)

\* The database files written for MongoDB and PostgreSQL only.
DatabaseOpsTwoOnly(c) ==
  IF Is(c, "database", "mongodb") THEN MongooseOps(c)
  ELSE IF Is(c, "database", "postgresql") THEN PrismaOps(c)
  ELSE <<>>

DatabaseOps(c) ==
  IF Is(c, "database", "mongodb") THEN MongooseOps(c) ELSE PrismaOps(c)

\* The auth files with the email service written for every 'jwt' project.
AuthOpsAlwaysEmail(c) ==
  IF ~Has(c, "jwt") THEN <<>>
  ELSE <<EnsureDir(ProjectPath(c, <<"src", "controllers">>)),
         EnsureDir(ProjectPath(c, <<"src", "routes">>)),
         EnsureDir(ProjectPath(c, <<"src", "services">>)),
         EnsureDir(ProjectPath(c, <<"src", "middleware">>))>>
       \o Render(c, <<"controllers", "auth.hbs">>,
                 <<"src", "controllers", "auth.controller.js">>)
       \o Render(c, <<"routes", "auth.hbs">>,
                 <<"src", "routes", "auth.routes.js">>)
       \o Render(c, <<"services", "email.hbs">>,
                 <<"src", "services", "email.service.js">>)
       \o Render(c, <<"middleware", "auth.hbs">>,
                 <<"src", "middleware", "auth.middleware.js">>)

\* The auth files with the email service rendered once for 'otp' and once
\* more for 'passwordReset'.
AuthOpsEmailPerTrigger(c) ==
  IF ~Has(c, "jwt") THEN <<>>
  ELSE <<EnsureDir(ProjectPath(c, <<"src", "controllers">>)),
         EnsureDir(ProjectPath(c, <<"src", "routes">>)),
         EnsureDir(ProjectPath(c, <<"src", "services">>)),
         EnsureDir(ProjectPath(c, <<"src", "middleware">>))>>
       \o Render(c, <<"controllers", "auth.hbs">>,
                 <<"src", "controllers", "auth.controller.js">>)
       \o Render(c, <<"routes", "auth.hbs">>,
                 <<"src", "routes", "auth.routes.js">>)
       \o (IF Has(c, "otp")
           THEN Render(c, <<"services", "email.hbs">>,
                       <<"src", "services", "email.service.js">>)
           ELSE <<>>)
       \o (IF Has(c, "passwordReset")
           THEN Render(c, <<"services", "email.hbs">>,
                       <<"src", "services", "email.service.js">>)
           ELSE <<>>)
       \o Render(c, <<"middleware", "auth.hbs">>,
                 <<"src", "middleware", "auth.middleware.js">>)

AuthOps(c) ==
  IF ~Has(c, "jwt") THEN <<>>
  ELSE <<EnsureDir(ProjectPath(c, <<"src", "controllers">>)),
         EnsureDir(ProjectPath(c, <<"src", "routes">>)),
         EnsureDir(ProjectPath(c, <<"src", "services">>)),
         EnsureDir(ProjectPath(c, <<"src", "middleware">>))>>
       \o Render(c, <<"controllers", "auth.hbs">>,
                 <<"src", "controllers", "auth.controller.js">>)
       \o Render(c, <<"routes", "auth.hbs">>,
                 <<"src", "routes", "auth.routes.js">>)
       \o (IF Has(c, "otp") \/ Has(c, "passwordReset")
           THEN Render(c, <<"services", "email.hbs">>,
                       <<"src", "services", "email.service.js">>)
           ELSE <<>>)
       \o Render(c, <<"middleware", "auth.hbs">>,
                 <<"src", "middleware", "auth.middleware.js">>)

\* The utilities with the Redis client written over validation.js.
UtilsOpsOnePath(c) ==
  <<EnsureDir(ProjectPath(c, <<"src", "utils">>))>>
  \o (IF Has(c, "validation")
      THEN Render(c, <<"utils", "validation.hbs">>,
                  <<"src", "utils", "validation.js">>)
      ELSE <<>>)
  \o (IF Has(c, "redis")
      THEN Render(c, <<"utils", "redis.hbs">>,
                  <<"src", "utils", "validation.js">>)
      ELSE <<>>)

UtilsOps(c) ==
  <<EnsureDir(ProjectPath(c, <<"src", "utils">>))>>
  \o (IF Has(c, "validation")
      THEN Render(c, <<"utils", "validation.hbs">>,
                  <<"src", "utils", "validation.js">>)
      ELSE <<>>)
  \o (IF Has(c, "redis")
      THEN Render(c, <<"utils", "redis.hbs">>, <<"src", "utils", "redis.js">>)
      ELSE <<>>)

EnvironmentOps(c) == Render(c, <<".env.example.hbs">>, <<".env.example">>)

FrontendOps(c) ==
  <<EnsureDir(ProjectPath(c, <<"client">>)),
    WriteFile(ProjectPath(c, <<"client", "package.json">>),
              Content("client/package.json", c.projectName, {"axios"},
                      {"vite"}, {"dev", "build", "preview"}))>>

ReadmeOps(c) == Render(c, <<"README.hbs">>, <<"README.md">>)

\* The frontend asked for by includeFrontend alone.
WantsFrontendIgnoringNone(c) ==
  "includeFrontend" \in DOMAIN c /\ c.includeFrontend

\* config.includeFrontend && config.frontendFramework !== 'none'
WantsFrontend(c) ==
  /\ "includeFrontend" \in DOMAIN c /\ c.includeFrontend
  /\ ~Is(c, "frontendFramework", "none")

(***************************************************************************)
(* generateBackend: one action for each awaited step.  A step performs its *)
(* filesystem calls in order; any of them may reject (the environment      *)
(* decides), and the rejection leaves generateBackend at once, since no    *)
(* step catches it.                                                        *)
(***************************************************************************)
\* The steps with a cleanup: a rejection removes what the run created.
RunOpsWithCleanup(ops, next) ==
  \E k \in 0..Len(ops) :
    LET st == ApplyOps([dirs |-> dirs, files |-> files, log |-> writeLog,
                        ok |-> TRUE], SubSeq(ops, 1, k))
    IN /\ st.ok
       /\ dirs' = IF k = Len(ops) THEN st.dirs ELSE before.dirs
       /\ files' = IF k = Len(ops) THEN st.files ELSE before.files
       /\ writeLog' = st.log
       /\ IF k = Len(ops)
          THEN pc' = next /\ error' = error
          ELSE pc' = "failed" /\ error' = IOError(ops[k + 1])
       /\ UNCHANGED <<config, validation, console, before, proceed,
                      exitCode, zip, saved, webFiles,
                      wizard, race>>

\* The steps with rejections swallowed: a call that fails is skipped and
\* the step goes on.
RunOpsSwallowingErrors(ops, next) ==
  \E skipped \in SUBSET DOMAIN ops :
    LET kept == {i \in DOMAIN ops : i \notin skipped}
        done == [i \in 1..Cardinality(kept) |->
                   ops[CHOOSE k \in kept :
                         Cardinality({m \in kept : m <= k}) = i]]
        st == ApplyOps([dirs |-> dirs, files |-> files, log |-> writeLog,
                        ok |-> TRUE], done)
    IN /\ st.ok
       /\ dirs' = st.dirs
       /\ files' = st.files
       /\ writeLog' = st.log
       /\ pc' = next
       /\ error' = error
       /\ UNCHANGED <<config, validation, console, before, proceed,
                      exitCode, zip, saved, webFiles,
                      wizard, race>>

RunOps(ops, next) ==
  \E k \in 0..Len(ops) :
    LET st == ApplyOps([dirs |-> dirs, files |-> files, log |-> writeLog,
                        ok |-> TRUE], SubSeq(ops, 1, k))
    IN /\ st.ok
       /\ dirs' = st.dirs
       /\ files' = st.files
       /\ writeLog' = st.log
       /\ IF k = Len(ops)
          THEN pc' = next /\ error' = error
          ELSE pc' = "failed" /\ error' = IOError(ops[k + 1])
       /\ UNCHANGED <<config, validation, console, before, proceed,
                      exitCode, zip, saved, webFiles,
                      wizard, race>>

\* Lines 40-48: refuse an existing target, else create the directory.
GenerateBackendStart ==
  /\ pc = "generateBackend"
  /\ IF pathExists(dirs, files, ProjectPath(config, <<>>))
     THEN /\ pc' = "failed"
          /\ error' = ExistsError(config)
          /\ UNCHANGED <<config, validation, console, dirs, files, writeLog,
                         before, proceed, exitCode, zip, saved, webFiles,
                         wizard, race>>
     ELSE RunOps(<<EnsureDir(ProjectPath(config, <<>>))>>,
                 "generatePackageJson")

GeneratePackageJson ==
  /\ pc = "generatePackageJson"
  /\ RunOps(PackageJsonOps(config), "generateServerFiles")

GenerateServerFiles ==
  /\ pc = "generateServerFiles"
  /\ RunOps(ServerOps(config), "generateDatabaseFiles")

GenerateDatabaseFiles ==
  /\ pc = "generateDatabaseFiles"
  /\ RunOps(DatabaseOps(config), "generateAuthFiles")

GenerateAuthFiles ==
  /\ pc = "generateAuthFiles"
  /\ RunOps(AuthOps(config), "generateUtils")

GenerateUtils ==
  /\ pc = "generateUtils"
  /\ RunOps(UtilsOps(config), "generateEnvironmentFile")

GenerateEnvironmentFile ==
  /\ pc = "generateEnvironmentFile"
  /\ RunOps(EnvironmentOps(config),
            IF WantsFrontend(config) THEN "generateFrontend"
            ELSE "generateReadme")

GenerateFrontend ==
  /\ pc = "generateFrontend"
  /\ RunOps(FrontendOps(config), "generateReadme")

GenerateReadme ==
  /\ pc = "generateReadme"
  /\ RunOps(ReadmeOps(config), "generated")

NextBackend ==
  \/ GenerateBackendStart
  \/ GeneratePackageJson
  \/ GenerateServerFiles
  \/ GenerateDatabaseFiles
  \/ GenerateAuthFiles
  \/ GenerateUtils
  \/ GenerateEnvironmentFile
  \/ GenerateFrontend
  \/ GenerateReadme

\* The feature tokens generateBackend's steps branch on when they choose
\* the files to write.
GeneratorTokens == {"jwt", "otp", "passwordReset", "redis", "validation"}

\* The name of the project the generators are run for.
SampleName == <<"a", "-", "7">>

\* Feature arrays a caller of generateBackend can pass and the checkbox
\* prompt never produces: tokens out of the declaration order, tokens
\* listed twice.
UncheckedLists ==
  {<<"otp", "jwt">>,
   <<"jwt", "jwt">>,
   <<"redis", "validation", "jwt">>,
   <<"passwordReset", "otp", "jwt", "otp">>,
   <<"validation", "redis", "passwordReset", "otp", "jwt">>}

\* Configurations as the CLI prompts shape them: emailService is asked
\* only with 'otp' or 'passwordReset', frontendFramework only with
\* includeFrontend.
BackendConfigs ==
  LET plain == [projectName : {SampleName},
                framework : FrameworkChoices,
                database : DatabaseChoices \cup {"none"},
                features : FeatureLists(GeneratorTokens) \cup UncheckedLists,
                emailService : EmailChoices,
                includeFrontend : BOOLEAN,
                frontendFramework : {"react-vite", "none"}]
      asked(r) ==
        {"projectName", "framework", "database", "features", "includeFrontend"}
        \cup (IF Has(r, "otp") \/ Has(r, "passwordReset")
              THEN {"emailService"} ELSE {})
        \cup (IF r.includeFrontend THEN {"frontendFramework"} ELSE {})
  IN {Restrict(r, asked(r)) : r \in plain}

\* What may lie at <cwd>/<projectName> before the run: nothing, an empty
\* directory, a directory holding a package.json, or a file.
DisksBefore(c) ==
  LET root == ProjectPath(c, <<>>)
      pkg == ProjectPath(c, <<"package.json">>)
  IN {EmptyDisk,
      [dirs |-> {root}, files |-> NoFiles],
      [dirs |-> {root}, files |-> [q \in {pkg} |-> OldContent]],
      [dirs |-> {}, files |-> [q \in {root} |-> OldContent]]}

InitBackend ==
  /\ config \in BackendConfigs
  /\ before \in DisksBefore(config)
  /\ dirs = before.dirs
  /\ files = before.files
  /\ pc = "generateBackend"
  /\ validation = NotValidated
  /\ console = <<>>
  /\ writeLog = <<>>
  /\ error = NoError
  /\ proceed = FALSE
  /\ exitCode = -1
  /\ zip = <<>>
  /\ saved = ""
  /\ webFiles = <<>>
  /\ wizard = NoWizard
  /\ race = NoRace


(***************************************************************************)
(* generateTemplate: the archive of the web configurator.                  *)
(***************************************************************************)
\* String.prototype.toLowerCase, on the characters of the model.
ToLowerCase(s) == [i \in DOMAIN s |-> IF s[i] = "Z" THEN "z" ELSE s[i]]

\* .replace(/[^a-z0-9-_]/g, '-')
ReplaceForeign(s) ==
  [i \in DOMAIN s |->
     IF s[i] \in {"a", "z"} \cup DigitChars \cup {"-", "_"} THEN s[i] ELSE "-"]

RECURSIVE StripLeadingHyphens(_)
StripLeadingHyphens(s) ==
  IF s # <<>> /\ Head(s) = "-" THEN StripLeadingHyphens(Tail(s)) ELSE s

RECURSIVE StripTrailingHyphens(_)
StripTrailingHyphens(s) ==
  IF s # <<>> /\ s[Len(s)] = "-"
  THEN StripTrailingHyphens(SubSeq(s, 1, Len(s) - 1)) ELSE s

RECURSIVE CollapseHyphens(_)
\* .replace(/--+/g, '-')
CollapseHyphens(s) ==
  IF Len(s) < 2 THEN s
  ELSE IF s[1] = "-" /\ s[2] = "-" THEN CollapseHyphens(Tail(s))
       ELSE <<Head(s)>> \o CollapseHyphens(Tail(s))

sanitizeProjectName(name) ==
  CollapseHyphens(
    StripTrailingHyphens(StripLeadingHyphens(ReplaceForeign(ToLowerCase(name)))))

\* The TypeError of a property read on undefined.
TypeError ==
  [code |-> "TypeError", path |-> NoPath,
   message |-> <<"Cannot read properties of undefined">>]

\* One zip.file call: the path inside the archive and the function that
\* produced the content.
Entry(path, producer) == [path |-> path, content |-> producer]

\* Lines 222-234: the database-specific files.
TemplateDatabaseFiles(c) ==
  IF Is(c, "database", "mongodb")
  THEN <<Entry(<<"server", "src", "models", "User.model.js">>,
               "generateUserModel"),
         Entry(<<"server", "src", "models", "RefreshToken.model.js">>,
               "generateRefreshTokenModel")>>
  ELSE IF Is(c, "database", "postgresql")
  THEN <<Entry(<<"server", "prisma", "schema.prisma">>,
               "generatePrismaSchema"),
         Entry(<<"server", "src", "utils", "prisma.js">>,
               "generatePrismaUtils")>>
  ELSE <<>>

\* Lines 255-282: the client subtree.
TemplateFrontendFiles(c) ==
  IF ~Is(c, "frontend", "none")
  THEN <<Entry(<<"client", "package.json">>, "generateClientPackageJson"),
         Entry(<<"client", ".env.example">>, "VITE_API_URL"),
         Entry(<<"client", "vite.config.js">>, "generateViteConfig"),
         Entry(<<"client", "index.html">>, "generateIndexHtml"),
         Entry(<<"client", "tailwind.config.js">>, "generateTailwindConfig"),
         Entry(<<"client", "postcss.config.js">>, "generatePostcssConfig"),
         Entry(<<"client", "src", "App.jsx">>, "generateAppComponent"),
         Entry(<<"client", "src", "main.jsx">>, "generateMainFile"),
         Entry(<<"client", "src", "index.css">>, "generateClientCss"),
         Entry(<<"client", "src", "components", "Login.jsx">>,
               "generateLoginComponent"),
         Entry(<<"client", "src", "components", "Register.jsx">>,
               "generateRegisterComponent"),
         Entry(<<"client", "src", "components", "VerifyEmail.jsx">>,
               "generateVerifyEmailComponent"),
         Entry(<<"client", "src", "components", "Dashboard.jsx">>,
               "generateDashboardComponent"),
         Entry(<<"client", "src", "utils", "api.js">>, "generateClientUtils"),
         Entry(<<"client", "src", "utils", "passwordVisibility.jsx">>,
               "generatePasswordVisibility"),
         Entry(<<"client", "src", "utils", "passwordValidation.jsx">>,
               "generatePasswordValidation")>>
  ELSE <<>>

\* Lines 191-238: the zip.file calls up to generateToken.utils.js, in call
\* order.
TemplateFilesFirst(c) ==
     <<Entry(<<"README.md">>, "generateReadme"),
       Entry(<<".gitignore">>, "generateGitignore")>>
  \o (IF "features" \in DOMAIN c /\ c.features.docker
      THEN <<Entry(<<"Dockerfile">>, "generateDockerfile"),
             Entry(<<"docker-compose.yml">>, "generateDockerCompose")>>
      ELSE <<>>)
  \o <<Entry(<<"server", "package.json">>, "generateServerPackageJson"),
       Entry(<<"server", ".env.example">>, "generateServerEnv"),
       Entry(<<"server", "src", "app.js">>, "generateAppJs"),
       Entry(<<"server", "src", "server.js">>, "generateServerJs"),
       Entry(<<"server", "src", "routes", "auth.routes.js">>,
             "generateAuthRoutes"),
       Entry(<<"server", "src", "controllers", "auth.controller.js">>,
             "generateAuthController"),
       Entry(<<"server", "src", "services", "auth.services.js">>,
             "generateAuthServices")>>
  \o TemplateDatabaseFiles(c)
  \o <<Entry(<<"server", "src", "utils", "generateToken.utils.js">>,
             "generateTokenUtils")>>

\* Lines 239-282: the zip.file calls from validation.utils.js on.
TemplateFilesRest(c) ==
     <<Entry(<<"server", "src", "utils", "validation.utils.js">>,
             "generateValidationUtils"),
       Entry(<<"server", "src", "utils", "safeRegex.utils.js">>,
             "generateSafeRegexUtils"),
       Entry(<<"server", "src", "utils", "userAuthentication.utils.js">>,
             "generateUserAuthUtils"),
       Entry(<<"server", "src", "utils", "registrationSession.utils.js">>,
             "generateRegistrationSessionUtils"),
       Entry(<<"server", "src", "utils", "registrationCleanup.utils.js">>,
             "generateRegistrationCleanupUtils"),
       Entry(<<"server", "src", "utils", "clearRedisCache.utils.js">>,
             "generateClearRedisCacheUtils"),
       Entry(<<"server", "src", "lib", "redis.lib.js">>, "generateRedisLib"),
       Entry(<<"server", "src", "lib", "sendMail.lib.js">>,
             "generateSendMailLib"),
       Entry(<<"server", "src", "middleware", "auth.middleware.js">>,
             "generateAuthMiddlewareAdvanced")>>
  \o TemplateFrontendFiles(c)

\* Lines 191-282: every zip.file call of generateTemplate, in call order.
TemplateFiles(c) == TemplateFilesFirst(c) \o TemplateFilesRest(c)

\* Line 1084: generateValidationUtils = (config) => `...${config.database}`
\* raises a TypeError when it is called without a configuration.
ValidationUtilsThrows(passed) == ~passed

\* Line 239 is generateValidationUtils(): no argument is passed.
TemplateThrows == ValidationUtilsThrows(FALSE)

\* The zip.file calls a generateTemplate run makes: the argument of the
\* call at line 239 is evaluated, and raises, before the file is added.
TemplateFilesAdded(c) ==
  IF TemplateThrows THEN TemplateFilesFirst(c) ELSE TemplateFiles(c)

\* Line 288: `${config.sanitizedName || 'devstack'}-template.zip`, read
\* from the configuration that was passed in.
ArchiveName(c) ==
  (IF "sanitizedName" \in DOMAIN c /\ c.sanitizedName # <<>>
   THEN c.sanitizedName ELSE <<"devstack">>) \o <<"-template.zip">>

\* Lines 185-186: finalConfig = { ...config, sanitizedName }, a new object.
FinalConfig(c) ==
  [f \in DOMAIN c \cup {"sanitizedName"} |->
     IF f = "sanitizedName" THEN sanitizeProjectName(c.projectName) ELSE c[f]]

\* generateTemplate storing the sanitized name in the object it was given.
TemplateFillMutating ==
  /\ pc = "generateTemplate"
  /\ config' = FinalConfig(config)
  /\ console' = Append(console,
       [level |-> "log", text |-> "Generating template with config:",
        detail |-> FinalConfig(config).sanitizedName])
  /\ zip' = TemplateFilesAdded(config)
  /\ pc' = IF TemplateThrows THEN "templateFailed" ELSE "generateAsync"
  /\ error' = IF TemplateThrows THEN TypeError ELSE error
  /\ UNCHANGED <<validation, dirs, files, writeLog,
                 before, proceed, exitCode, saved, webFiles,
                 wizard, race>>

\* Lines 185-282: the derived configuration is logged (here with its
\* sanitized name) and the archive is filled, one zip.file call after
\* another, until a call raises: the rejection leaves generateTemplate.
TemplateFill ==
  /\ pc = "generateTemplate"
  /\ console' = Append(console,
       [level |-> "log", text |-> "Generating template with config:",
        detail |-> FinalConfig(config).sanitizedName])
  /\ zip' = TemplateFilesAdded(config)
  /\ pc' = IF TemplateThrows THEN "templateFailed" ELSE "generateAsync"
  /\ error' = IF TemplateThrows THEN TypeError ELSE error
  /\ UNCHANGED <<config, validation, dirs, files, writeLog,
                 before, proceed, exitCode, saved, webFiles,
                 wizard, race>>

\* Lines 285-288: in a browser the archive is saved.
TemplateSave ==
  /\ pc = "generateAsync"
  /\ saved' = ArchiveName(config)
  /\ pc' = "templateDone"
  /\ UNCHANGED <<config, validation, console, dirs, files, writeLog, error,
                 before, proceed, exitCode, zip, webFiles,
                 wizard, race>>

\* Lines 289-292: under Node there is no saveAs and a line is logged.
TemplateLog ==
  /\ pc = "generateAsync"
  /\ console' = Append(console,
       [level |-> "log", text |-> "Template generated successfully",
        detail |-> <<>>])
  /\ pc' = "templateDone"
  /\ UNCHANGED <<config, validation, dirs, files, writeLog, error, before,
                 proceed, exitCode, zip, saved, webFiles,
                 wizard, race>>

\* TemplateSave and TemplateLog wait for "generateAsync", which no run
\* reaches: every run leaves generateTemplate at line 239.
NextTemplate == TemplateFill

\* The enums of the web configurator.
BackendStacks == {"express", "fastapi", "django", "nestjs", "flask"}
AuthTypes == {"jwt", "otp", "jwt-otp", "oauth", "none"}
DatabaseTypes == {"postgresql", "mongodb", "mysql", "sqlite", "none"}
FrontendFrameworks == {"react", "vue", "angular", "none"}

\* The configurations handleGenerate builds from the configurator's state.
TemplateConfigs ==
  [projectName : {SampleName, <<"Z", " ", "!">>},
   backend : {"express"},
   frontend : FrontendFrameworks,
   database : DatabaseTypes,
   auth : AuthTypes,
   features : [docker : BOOLEAN, swagger : BOOLEAN, cors : BOOLEAN]]

InitTemplate ==
  /\ config \in TemplateConfigs
  /\ pc = "generateTemplate"
  /\ Idle

(***************************************************************************)
(* generateWebBackend: the in-memory generator.                            *)
(***************************************************************************)
\* convertConfig naming no email provider.
convertConfigWithoutEmail(c) ==
  [projectName |-> c.projectName,
   framework |-> c.stack,
   database |-> c.database.type,
   features |->
        (IF c.auth.type # "none"
         THEN <<"jwt">>
              \o (IF c.auth.type \in {"otp", "jwt-otp"} THEN <<"otp">> ELSE <<>>)
              \o <<"passwordReset">>
         ELSE <<>>)
     \o (IF c.features.cors THEN <<"cors">> ELSE <<>>)
     \o (IF c.features.swagger THEN <<"docs">> ELSE <<>>)
     \o (IF c.database.type # "none"
         THEN <<"validation", "logging", "rateLimit">> ELSE <<>>)
     \o (IF c.database.type \in {"mongodb", "postgresql", "mysql", "sqlite"}
         THEN <<"redis">> ELSE <<>>),
   emailService |-> "none",
   includeFrontend |-> c.frontend.framework # "none",
   frontendFramework |->
     IF c.frontend.framework = "none" THEN "none"
     ELSE c.frontend.framework \o "-vite"]

\* Lines 15-50: the web configuration in the generator's format.
convertConfig(c) ==
  [projectName |-> c.projectName,
   framework |-> c.stack,
   database |-> c.database.type,
   features |->
        (IF c.auth.type # "none"
         THEN <<"jwt">>
              \o (IF c.auth.type \in {"otp", "jwt-otp"} THEN <<"otp">> ELSE <<>>)
              \o <<"passwordReset">>
         ELSE <<>>)
     \o (IF c.features.cors THEN <<"cors">> ELSE <<>>)
     \o (IF "helmet" \in DOMAIN c.features /\ c.features.helmet
         THEN <<"helmet">> ELSE <<>>)
     \o (IF c.features.swagger THEN <<"docs">> ELSE <<>>)
     \o (IF c.database.type # "none"
         THEN <<"validation", "logging", "rateLimit">> ELSE <<>>)
     \o (IF c.database.type \in {"mongodb", "postgresql", "mysql", "sqlite"}
         THEN <<"redis">> ELSE <<>>),
   emailService |-> IF c.auth.type # "none" THEN "mailtrap" ELSE "none",
   includeFrontend |-> c.frontend.framework # "none",
   frontendFramework |->
     IF c.frontend.framework = "none" THEN "none"
     ELSE c.frontend.framework \o "-vite"]

\* Lines 193-280: the auth files.
WebAuthFiles(g) ==
  IF Has(g, "jwt")
  THEN <<Entry(<<"src", "controllers", "auth.controller.js">>,
               "auth.controller"),
         Entry(<<"src", "routes", "auth.routes.js">>, "auth.routes")>>
  ELSE <<>>

\* Lines 55-352: every key assigned in files, in assignment order.
WebFiles(g) ==
     <<Entry(<<"package.json">>, "package.json"),
       Entry(<<"src", "server.js">>, "server"),
       Entry(<<"src", "app.js">>, "app")>>
  \o (IF g.database = "mongodb" /\ Has(g, "jwt")
      THEN <<Entry(<<"src", "models", "User.model.js">>, "User.model")>>
      ELSE <<>>)
  \o WebAuthFiles(g)
  \o <<Entry(<<".env.example">>, "env"), Entry(<<"README.md">>, "readme")>>

generateWebBackend(c) == WebFiles(convertConfig(c))

WebGenerate ==
  /\ pc = "generateWebBackend"
  /\ webFiles' = generateWebBackend(config)
  /\ pc' = "webDone"
  /\ UNCHANGED <<config, validation, console, dirs, files, writeLog, error,
                 before, proceed, exitCode, zip, saved,
                 wizard, race>>

NextWeb == WebGenerate

\* Every TemplateConfig of the declared types.
WebConfigs ==
  [projectName : {SampleName},
   stack : BackendStacks,
   auth : [type : AuthTypes],
   database : [type : DatabaseTypes],
   frontend : [framework : FrontendFrameworks],
   features : [docker : {FALSE}, testing : {FALSE}, cicd : {FALSE},
               swagger : BOOLEAN, cors : BOOLEAN]]

InitWeb ==
  /\ config \in WebConfigs
  /\ pc = "generateWebBackend"
  /\ Idle

(***************************************************************************)
(* Specification SpecGen: one run of one of the three generators.          *)
(***************************************************************************)
InitGen == InitBackend \/ InitTemplate \/ InitWeb

NextGen == NextBackend \/ NextTemplate \/ NextWeb

SpecGen == InitGen /\ [][NextGen]_vars

(***************************************************************************)
(* Specification SpecCli: one run of main, from the prompted answers to    *)
(* the end of the process.                                                 *)
(***************************************************************************)
Say(level, text, detail) == [level |-> level, text |-> text, detail |-> detail]

\* Lines 103-108 with the validation failure ignored.
MainValidateNoAbort ==
  /\ pc = "main"
  /\ validation' = validateConfig(config)
  /\ console' = console \o Lines("warn", validateConfig(config).warnings)
  /\ pc' = "confirm"
  /\ UNCHANGED <<config, dirs, files, writeLog, error, before, proceed,
                 exitCode, zip, saved, webFiles,
                 wizard, race>>

\* Lines 103-108: validate the answers; report the errors and exit(1).
MainValidate ==
  /\ pc = "main"
  /\ validation' = validateConfig(config)
  /\ IF validateConfig(config).threw
     THEN /\ error' = TypeError
          /\ console' = console
          /\ pc' = "failed"
          /\ exitCode' = exitCode
     ELSE /\ error' = error
          /\ IF validateConfig(config).valid
             THEN /\ console' =
                       console \o Lines("warn", validateConfig(config).warnings)
                  /\ pc' = "confirm"
                  /\ exitCode' = exitCode
             ELSE /\ console' =
                       console
                       \o Lines("warn", validateConfig(config).warnings)
                       \o <<Say("error", "Configuration Error:", <<>>)>>
                       \o Lines("error", validateConfig(config).errors)
                  /\ pc' = "exited"
                  /\ exitCode' = 1
  /\ UNCHANGED <<config, dirs, files, writeLog, before, proceed, zip, saved,
                 webFiles,
                 wizard, race>>

\* Lines 122-134: the confirmation; exit(0) when the user declines.
MainConfirm ==
  /\ pc = "confirm"
  /\ \E answer \in BOOLEAN :
       /\ proceed' = answer
       /\ IF answer
          THEN /\ pc' = "generateBackend"
               /\ console' = console
               /\ exitCode' = exitCode
          ELSE /\ pc' = "exited"
               /\ console' =
                    Append(console, Say("log", "Generation cancelled", <<>>))
               /\ exitCode' = 0
  /\ UNCHANGED <<config, validation, dirs, files, writeLog, error, before,
                 zip, saved, webFiles,
                 wizard, race>>

\* Lines 139-146: generateBackend resolved.
MainSuccess ==
  /\ pc = "generated"
  /\ console' =
       Append(console, Say("log", "Backend generated successfully!", <<>>))
  /\ pc' = "exited"
  /\ exitCode' = 0
  /\ UNCHANGED <<config, validation, dirs, files, writeLog, error, before,
                 proceed, zip, saved, webFiles,
                 wizard, race>>

\* Lines 148-151: the catch block prints error.message and exits with 1.
MainCatch ==
  /\ pc = "failed"
  /\ console' =
       Append(console,
              Say("error", "Error generating backend:", error.message))
  /\ pc' = "exited"
  /\ exitCode' = 1
  /\ UNCHANGED <<config, validation, dirs, files, writeLog, error, before,
                 proceed, zip, saved, webFiles,
                 wizard, race>>

NextCli ==
  \/ MainValidate
  \/ MainConfirm
  \/ NextBackend
  \/ MainSuccess
  \/ MainCatch

\* The answers the prompts can produce.
CliAnswers ==
  {c \in BackendConfigs :
     /\ PromptAccepts(c.projectName)
     /\ c.database \in DatabaseChoices
     /\ c.features \in FeatureLists(GeneratorTokens)}

InitCli ==
  /\ config \in CliAnswers
  /\ before \in {EmptyDisk,
                 [dirs |-> {ProjectPath(config, <<>>)}, files |-> NoFiles]}
  /\ dirs = before.dirs
  /\ files = before.files
  /\ pc = "main"
  /\ validation = NotValidated
  /\ console = <<>>
  /\ writeLog = <<>>
  /\ error = NoError
  /\ proceed = FALSE
  /\ exitCode = -1
  /\ zip = <<>>
  /\ saved = ""
  /\ webFiles = <<>>
  /\ wizard = NoWizard
  /\ race = NoRace

SpecCli == InitCli /\ [][NextCli]_vars

(***************************************************************************)
(* The web page: Home and the Configurator wizard (home.tsx), and the      *)
(* template cards of the gallery (TemplateCard.tsx).                       *)
(***************************************************************************)
\* Lines 85-91: the five steps of the wizard, by title.
steps ==
  <<"Stack Selection", "Authentication", "Database", "Features", "Review">>

\* The initial project name 'my-backend' in the characters of the model:
\* letters, a hyphen, letters.
DefaultProjectName == <<"a", "-", "z">>

\* The two messages handleNext shows (lines 119 and 123).
ToastRequired == "Project name is required"
ToastPattern ==
  "Project name must start with a letter and contain only letters, numbers, hyphens, and underscores"

\* Home lines 15-16 and Configurator lines 94-111: the state of the page
\* when the Configurator is mounted with the given initialStack
\* ("undefined": the prop is absent). An unmounted Configurator is held
\* as the state its next mount starts from.
Mounted(view, selectedTemplate, initialStack, toast, logged) ==
  [view |-> view,
   selectedTemplate |-> selectedTemplate,
   currentStep |-> 1,
   generating |-> FALSE,
   generated |-> FALSE,
   config |->
     [stack |-> IF initialStack = "undefined" THEN "express" ELSE initialStack,
      auth |-> [type |-> "none"],
      database |-> [type |-> "none"],
      frontend |-> [framework |-> "none"],
      features |-> [docker |-> FALSE, testing |-> FALSE, cicd |-> FALSE,
                    swagger |-> TRUE, cors |-> TRUE],
      projectName |-> DefaultProjectName],
   calls |-> <<>>,
   toast |-> toast,
   logged |-> logged]

\* Home lines 18-21; the Navbar offers it in both views, and a mounted
\* Configurator stays mounted.
HandleGetStarted ==
  /\ pc = "page"
  /\ wizard' =
       IF wizard.view = "home"
       THEN Mounted("configurator", "null", "undefined",
                    wizard.toast, wizard.logged)
       ELSE [wizard EXCEPT !.selectedTemplate = "null"]
  /\ UNCHANGED <<config, pc, validation, console, dirs, files, writeLog,
                 error, before, proceed, exitCode, zip, saved, webFiles,
                 race>>

\* TemplateCard line 20, with no template held back.
isComingSoonNever(stack) == FALSE

\* TemplateCard line 20: every template but an Express one is in
\* development.
isComingSoon(stack) == stack # "express"

\* TemplateCard line 73 and Home lines 23-26: a click on the card of a
\* template of the given stack; the gallery is shown in the home view.
ClickTemplateCard ==
  /\ pc = "page"
  /\ wizard.view = "home"
  /\ \E stack \in BackendStacks :
       wizard' =
         IF isComingSoon(stack)
         THEN wizard
         ELSE Mounted("configurator", stack, stack,
                      wizard.toast, wizard.logged)
  /\ UNCHANGED <<config, pc, validation, console, dirs, files, writeLog,
                 error, before, proceed, exitCode, zip, saved, webFiles,
                 race>>

\* Home lines 28-31, behind "Back to Templates" (line 182) and "Create
\* Another" (line 280): the Configurator is unmounted, and the calls it
\* started are no longer a mounted Configurator's.
HandleBack ==
  /\ pc = "page"
  /\ wizard.view = "configurator"
  /\ wizard' = Mounted("home", "null", "undefined",
                       wizard.toast, wizard.logged)
  /\ UNCHANGED <<config, pc, validation, console, dirs, files, writeLog,
                 error, before, proceed, exitCode, zip, saved, webFiles,
                 race>>

\* The names typed into the name field: empty, blank, a letter, a letter
\* between blanks, a leading digit, a foreign character, and a name with
\* a hyphen and a digit.
WizardNames ==
  {<<>>, <<" ">>, <<"a">>, <<" ", "a", " ">>, <<"7", "a">>, <<"a", "!">>,
   SampleName}

\* Lines 215 and 310: the name field is part of step 1 and stores whatever
\* was typed or pasted.
EditProjectName ==
  /\ pc = "page"
  /\ wizard.view = "configurator"
  /\ wizard.currentStep = 1
  /\ \E name \in WizardNames :
       wizard' = [wizard EXCEPT !.config.projectName = name]
  /\ UNCHANGED <<config, pc, validation, console, dirs, files, writeLog,
                 error, before, proceed, exitCode, zip, saved, webFiles,
                 race>>

\* StackSelection lines 295-301, with no stack held back.
StackIsComingSoonNever(stack) == FALSE

\* StackSelection lines 295-301: the isComingSoon flags of the buttons.
StackIsComingSoon(stack) == stack \in {"fastapi", "django", "nestjs", "flask"}

\* Lines 215 and 326: a click on a stack button of step 1.
ClickStack ==
  /\ pc = "page"
  /\ wizard.view = "configurator"
  /\ wizard.currentStep = 1
  /\ \E stack \in BackendStacks :
       wizard' = IF StackIsComingSoon(stack)
                 THEN wizard
                 ELSE [wizard EXCEPT !.config.stack = stack]
  /\ UNCHANGED <<config, pc, validation, console, dirs, files, writeLog,
                 error, before, proceed, exitCode, zip, saved, webFiles,
                 race>>

\* The choices made in steps 2 to 4: of a select, "none" and one more
\* value; of the five checkboxes, one.
WizardAuthChoices == {"none", "jwt-otp"}
WizardDatabaseChoices == {"none", "mongodb"}
WizardFeatureChoices == {"docker"}

\* Lines 216 and 367: the authentication select of step 2.
SelectAuth ==
  /\ pc = "page"
  /\ wizard.view = "configurator"
  /\ wizard.currentStep = 2
  /\ \E value \in WizardAuthChoices :
       wizard' = [wizard EXCEPT !.config.auth.type = value]
  /\ UNCHANGED <<config, pc, validation, console, dirs, files, writeLog,
                 error, before, proceed, exitCode, zip, saved, webFiles,
                 race>>

\* Lines 217 and 422: the database select of step 3 (the frontend select
\* of line 442 is left at 'none').
SelectDatabase ==
  /\ pc = "page"
  /\ wizard.view = "configurator"
  /\ wizard.currentStep = 3
  /\ \E value \in WizardDatabaseChoices :
       wizard' = [wizard EXCEPT !.config.database.type = value]
  /\ UNCHANGED <<config, pc, validation, console, dirs, files, writeLog,
                 error, before, proceed, exitCode, zip, saved, webFiles,
                 race>>

\* Lines 218 and 479-484: a checkbox of step 4.
CheckFeature ==
  /\ pc = "page"
  /\ wizard.view = "configurator"
  /\ wizard.currentStep = 4
  /\ \E key \in WizardFeatureChoices, checked \in BOOLEAN :
       wizard' = [wizard EXCEPT !.config.features[key] = checked]
  /\ UNCHANGED <<config, pc, validation, console, dirs, files, writeLog,
                 error, before, proceed, exitCode, zip, saved, webFiles,
                 race>>

\* handleNext showing no message.
handleNextToastNever(w) == ""

\* Lines 117-126: the message handleNext returns with ("": none).
handleNextToast(w) ==
  IF w.currentStep = 1 /\ trim(w.config.projectName) = <<>>
  THEN ToastRequired
  ELSE IF w.currentStep = 1 /\ ~IdentifierPattern(trim(w.config.projectName))
       THEN ToastPattern
       ELSE ""

\* A Next button shown at every step and stepping whatever the step.
HandleNextPastLast ==
  /\ pc = "page"
  /\ wizard.view = "configurator"
  /\ ~wizard.generated
  /\ wizard.currentStep <= Len(steps)
  /\ wizard' =
       IF handleNextToast(wizard) # ""
       THEN [wizard EXCEPT !.toast = handleNextToast(wizard)]
       ELSE [wizard EXCEPT !.currentStep = wizard.currentStep + 1]
  /\ UNCHANGED <<config, pc, validation, console, dirs, files, writeLog,
                 error, before, proceed, exitCode, zip, saved, webFiles,
                 race>>

\* Lines 115-131 behind the Next button of lines 226 and 238-242, shown
\* while nothing was generated and the step is not the last.
HandleNext ==
  /\ pc = "page"
  /\ wizard.view = "configurator"
  /\ ~wizard.generated
  /\ wizard.currentStep < Len(steps)
  /\ wizard' =
       IF handleNextToast(wizard) # ""
       THEN [wizard EXCEPT !.toast = handleNextToast(wizard)]
       ELSE IF wizard.currentStep < Len(steps)
            THEN [wizard EXCEPT !.currentStep = wizard.currentStep + 1]
            ELSE wizard
  /\ UNCHANGED <<config, pc, validation, console, dirs, files, writeLog,
                 error, before, proceed, exitCode, zip, saved, webFiles,
                 race>>

\* Lines 133-137 behind the Previous button of lines 226-235, disabled at
\* step 1.
HandlePrevious ==
  /\ pc = "page"
  /\ wizard.view = "configurator"
  /\ ~wizard.generated
  /\ wizard.currentStep # 1
  /\ wizard' =
       IF wizard.currentStep > 1
       THEN [wizard EXCEPT !.currentStep = wizard.currentStep - 1]
       ELSE wizard
  /\ UNCHANGED <<config, pc, validation, console, dirs, files, writeLog,
                 error, before, proceed, exitCode, zip, saved, webFiles,
                 race>>

\* The handleGenerate calls a Configurator may have in flight.
MaxCalls == 2

\* A Generate button that stays enabled.
GenerateNeverDisabled(w) == FALSE

\* Line 246: disabled={generating}.
GenerateDisabled(w) == w.generating

\* Lines 139-141, behind the Generate button of lines 226 and 243-247
\* (shown in place of Next at the last step): generating is set and the
\* import of the generator is awaited; the handler keeps the config of
\* the render it was created in.
HandleGenerate ==
  /\ pc = "page"
  /\ wizard.view = "configurator"
  /\ ~wizard.generated
  /\ ~(wizard.currentStep < Len(steps))
  /\ ~GenerateDisabled(wizard)
  /\ Len(wizard.calls) < MaxCalls
  /\ wizard' = [wizard EXCEPT
       !.generating = TRUE,
       !.calls = Append(@, [stage |-> "import", config |-> wizard.config])]
  /\ UNCHANGED <<config, pc, validation, console, dirs, files, writeLog,
                 error, before, proceed, exitCode, zip, saved, webFiles,
                 race>>

\* Lines 145-155: the configuration handleGenerate passes on.
templateConfig(c) ==
  [backend |-> c.stack,
   frontend |-> c.frontend.framework,
   database |-> c.database.type,
   auth |-> c.auth.type,
   features |-> c.features,
   projectName |-> c.projectName,
   packageManager |-> "npm",
   orm |-> IF c.database.type = "mongodb" THEN "mongoose" ELSE "prisma",
   styling |-> "tailwindcss"]

\* Lines 142-160, once the import resolved: the configuration is built
\* and logged and generateTemplate is called with it; generateTemplate
\* logs, fills an archive of its own and returns a promise, rejected
\* when it raised.
GenerateCall ==
  /\ pc = "page"
  /\ wizard.calls # <<>>
  /\ Head(wizard.calls).stage = "import"
  /\ wizard' = [wizard EXCEPT
       !.logged = "Generating template with config:",
       !.calls = <<[stage |-> "generateTemplate",
                    passed |-> templateConfig(Head(wizard.calls).config),
                    outcome |-> IF TemplateThrows THEN "rejected"
                                ELSE "resolved"]>>
                 \o Tail(@)]
  /\ UNCHANGED <<config, pc, validation, console, dirs, files, writeLog,
                 error, before, proceed, exitCode, zip, saved, webFiles,
                 race>>

\* handleGenerate reporting success whatever the promise settled with.
GenerateSettlesAlwaysGenerated ==
  /\ pc = "page"
  /\ wizard.calls # <<>>
  /\ Head(wizard.calls).stage = "generateTemplate"
  /\ wizard' = [wizard EXCEPT
       !.generated = TRUE,
       !.logged = IF Head(wizard.calls).outcome = "resolved"
                  THEN @ ELSE "Generation failed:",
       !.generating = FALSE,
       !.calls = Tail(@)]
  /\ UNCHANGED <<config, pc, validation, console, dirs, files, writeLog,
                 error, before, proceed, exitCode, zip, saved, webFiles,
                 race>>

\* Lines 160-170, once the promise settled: setGenerated(true) after a
\* resolved promise, console.error after a rejected one, and
\* setGenerating(false) in the finally block.
GenerateSettles ==
  /\ pc = "page"
  /\ wizard.calls # <<>>
  /\ Head(wizard.calls).stage = "generateTemplate"
  /\ wizard' = [wizard EXCEPT
       !.generated = IF Head(wizard.calls).outcome = "resolved"
                     THEN TRUE ELSE @,
       !.logged = IF Head(wizard.calls).outcome = "resolved"
                  THEN @ ELSE "Generation failed:",
       !.generating = FALSE,
       !.calls = Tail(@)]
  /\ UNCHANGED <<config, pc, validation, console, dirs, files, writeLog,
                 error, before, proceed, exitCode, zip, saved, webFiles,
                 race>>

NextWizard ==
  \/ HandleGetStarted
  \/ ClickTemplateCard
  \/ HandleBack
  \/ EditProjectName
  \/ ClickStack
  \/ SelectAuth
  \/ SelectDatabase
  \/ CheckFeature
  \/ HandleNext
  \/ HandlePrevious
  \/ HandleGenerate
  \/ GenerateCall
  \/ GenerateSettles

\* The page as it is first rendered: the home view, no Configurator.
InitWizard ==
  /\ pc = "page"
  /\ wizard = Mounted("home", "null", "undefined", "", "")
  /\ race = NoRace
  /\ config = [projectName |-> <<>>]
  /\ validation = NotValidated
  /\ console = <<>>
  /\ dirs = {}
  /\ files = NoFiles
  /\ writeLog = <<>>
  /\ error = NoError
  /\ before = EmptyDisk
  /\ proceed = FALSE
  /\ exitCode = -1
  /\ zip = <<>>
  /\ saved = ""
  /\ webFiles = <<>>

SpecWizard == InitWizard /\ [][NextWizard]_vars

\* A promise that can settle does settle: the import and the generator
\* call of a handleGenerate in flight are not postponed for ever.
SpecWizardLive ==
  SpecWizard /\ WF_vars(GenerateCall) /\ WF_vars(GenerateSettles)

(***************************************************************************)
(* Claims about validateConfig (SpecValidate).                             *)
(***************************************************************************)
Called == pc \in {"validated", "threw"}
Returned == pc = "validated"
HasFeatures == "features" \in DOMAIN config
Selected(t) == HasFeatures /\ includes(config.features, t)

\* C1: validateConfig reports a project-name violation (and valid = false)
\* exactly when projectName is absent or does not match
\* ^[A-Za-z][A-Za-z0-9_-]*$.
C1_ProjectNameRule ==
  Returned =>
    LET matches == /\ "projectName" \in DOMAIN config
                   /\ IdentifierPattern(config.projectName)
    IN /\ includes(validation.errors, MsgName) <=> ~matches
       /\ ~matches => ~validation.valid

\* The rule a message reports.
RuleOf(msg) ==
  CASE msg = MsgName -> "project-name"
    [] msg = MsgFramework -> "framework"
    [] msg = MsgDatabase -> "database"
    [] msg \in {MsgOtp, MsgReset} -> "feature-dependency"
    [] msg = MsgEmail -> "email-dependency"
    [] msg = MsgMongo -> "compatibility"

\* The rules reported by a result, in the order reported, the project-name
\* rule left aside.
ReportedRules(errors) ==
  LET rest == SelectSeq(errors, LAMBDA m : m # MsgName)
  IN [i \in DOMAIN rest |-> RuleOf(rest[i])]

FrameworkBroken == "framework" \notin DOMAIN config
DatabaseBroken == "database" \notin DOMAIN config
EmailBroken ==
  /\ Selected("otp") \/ Selected("passwordReset")
  /\ "emailService" \notin DOMAIN config \/ config.emailService = "none"
CompatibilityBroken ==
  /\ "database" \in DOMAIN config /\ config.database = "mongodb"
  /\ "framework" \notin DOMAIN config \/ config.framework # "express"

When(broken, rule) == IF broken THEN <<rule>> ELSE <<>>

\* C2: for every configuration one call returns exactly the broken rules,
\* one violation for each broken rule, in the precedence order framework,
\* database, feature dependency, email dependency, compatibility.
C2_OneViolationPerRule ==
  Called =>
    /\ Returned
    /\ ReportedRules(validation.errors) =
            When(FrameworkBroken, "framework")
         \o When(DatabaseBroken, "database")
         \o When((Selected("otp") \/ Selected("passwordReset"))
                   /\ ~Selected("jwt"), "feature-dependency")
         \o When(EmailBroken, "email-dependency")
         \o When(CompatibilityBroken, "compatibility")

\* What validateConfig does return when the configuration has a feature
\* list: the broken rules in that order, the feature-dependency rule once
\* for 'otp' without 'jwt' and once more for 'passwordReset' without 'jwt'.
ViolationsAreBrokenRules ==
  (Called /\ HasFeatures) =>
    /\ Returned
    /\ ReportedRules(validation.errors) =
            When(FrameworkBroken, "framework")
         \o When(DatabaseBroken, "database")
         \o When(Selected("otp") /\ ~Selected("jwt"), "feature-dependency")
         \o When(Selected("passwordReset") /\ ~Selected("jwt"),
                 "feature-dependency")
         \o When(EmailBroken, "email-dependency")
         \o When(CompatibilityBroken, "compatibility")
    /\ validation.valid <=> validation.errors = <<>>

\* One call reported the framework, the feature dependency (for both
\* features), the email dependency and the compatibility rule together.
AllRulesReportedTogether ==
  /\ Returned
  /\ ReportedRules(validation.errors) =
       <<"framework", "feature-dependency", "feature-dependency",
         "email-dependency", "compatibility">>

\* C3: validateConfig never throws, whatever properties the configuration
\* object lacks.
C3_NeverThrows == pc # "threw"

(***************************************************************************)
(* Claims about main (SpecCli).                                            *)
(***************************************************************************)
\* The positions inside generateBackend, and the one after it resolved.
InGenerateBackend ==
  pc \in {"generateBackend", "generatePackageJson", "generateServerFiles",
          "generateDatabaseFiles", "generateAuthFiles", "generateUtils",
          "generateEnvironmentFile", "generateFrontend", "generateReadme",
          "generated"}

DiskUntouched ==
  dirs = before.dirs /\ files = before.files /\ writeLog = <<>>

\* C4: generateBackend runs only after validateConfig returned valid = true
\* and the user confirmed; when validation fails or the user declines, the
\* run ends with no directory or file created.
C4_GenerateOnlyWhenValidAndConfirmed ==
  /\ InGenerateBackend =>
       ~validation.threw /\ validation.valid /\ proceed
  /\ (~validation.valid \/ ~proceed) => DiskUntouched
  /\ (pc = "exited" /\ (~validation.valid \/ ~proceed)) =>
       exitCode = (IF validation.valid THEN 0 ELSE 1)

\* C4's case: validation failed and the process ended, nothing on the disk.
C4_Witness ==
  /\ pc = "exited"
  /\ ~validation.valid
  /\ validation.errors # <<>>
  /\ exitCode = 1
  /\ dirs = {}

(***************************************************************************)
(* Claims about the generators (SpecGen).                                  *)
(***************************************************************************)
BackendRun == InGenerateBackend \/ pc = "failed"

\* The target was on the disk, as a directory or as a file, when the run began.
TargetExisted ==
  \/ ProjectPath(config, <<>>) \in before.dirs
  \/ ProjectPath(config, <<>>) \in DOMAIN before.files

\* C5: when <cwd>/<projectName> exists as generateBackend starts, it
\* rejects with the 'already exists' error and nothing on the disk is
\* created or modified.
C5_ExistingTargetRefused ==
  (BackendRun /\ TargetExisted) =>
    /\ pc \in {"generateBackend", "failed"}
    /\ pc = "failed" => error = ExistsError(config)
    /\ DiskUntouched

\* C5's case: the target held a package.json, the run was refused.
C5_Witness ==
  /\ pc = "failed"
  /\ error = ExistsError(config)
  /\ ProjectPath(config, <<"package.json">>) \in DOMAIN files

\* C6: a failed write or template read stops the generation, and the
\* failure the caller receives carries the number of files written before
\* it and the path that failed.
C6_FailureCarriesCountAndPath ==
  (pc = "failed" /\ error.code = "EIO") =>
    /\ "path" \in DOMAIN error /\ error.path # NoPath
    /\ "written" \in DOMAIN error /\ error.written = Len(writeLog)

\* C7: no rollback.  Every file written stays on the disk with the content
\* it was written with, in its directory, also after a failure.
C7_NoRollback ==
  \A i \in DOMAIN writeLog :
    /\ writeLog[i].path \in DOMAIN files
    /\ files[writeLog[i].path] = writeLog[i].content
    /\ Ancestors(Parent(writeLog[i].path)) \subseteq dirs

\* C7's case: generateBackend failed with files already written.
C7_Witness ==
  /\ pc = "failed"
  /\ error.code = "EIO"
  /\ Len(writeLog) >= 3

PathsOf(entries) == [i \in DOMAIN entries |-> entries[i].path]

\* C8: no output path is written twice in a generateBackend run, none is
\* added twice to the archive in a generateTemplate run, and every artifact
\* written is one file of the output.
C8_NoPathTwice ==
  /\ NoDuplicates(PathsOf(writeLog))
  /\ NoDuplicates(PathsOf(zip))
  /\ Cardinality(DOMAIN files \ DOMAIN before.files) = Len(writeLog)
  /\ pc \in {"generateAsync", "templateDone", "templateFailed"} =>
       Cardinality(Range(PathsOf(zip))) = Len(zip)

\* C8's case: a generateBackend run that wrote every file it can write.
C8_Witness ==
  /\ pc = "generated"
  /\ Len(writeLog) = 14

\* C9: for each of mongodb, postgresql, mysql and sqlite, generateBackend
\* and generateTemplate each emit the Mongoose models or the Prisma schema
\* with the Prisma client.
C9_PersistenceForEveryDatabase ==
  LET out(segs) == ProjectPath(config, segs)
      archived == Range(PathsOf(zip))
  IN /\ (pc = "generated" /\ config.database \in DatabaseChoices) =>
          \/ out(<<"src", "models", "User.model.js">>) \in DOMAIN files
          \/ /\ out(<<"prisma", "schema.prisma">>) \in DOMAIN files
             /\ out(<<"src", "utils", "prisma.js">>) \in DOMAIN files
     /\ (pc \in {"templateDone", "templateFailed"}
           /\ config.database \in DatabaseChoices) =>
          \/ <<"server", "src", "models", "User.model.js">> \in archived
          \/ /\ <<"server", "prisma", "schema.prisma">> \in archived
             /\ <<"server", "src", "utils", "prisma.js">> \in archived

\* C10: when the features contain 'otp', the output holds the auth
\* controller, the auth routes, the auth middleware and an email service.
\* (generateBackend is read here on the configurations validateConfig
\* accepts.)
C10_OtpClosure ==
  LET out(segs) == ProjectPath(config, segs)
      web == Range(PathsOf(webFiles))
  IN /\ (pc = "generated" /\ Has(config, "otp")
           /\ validateConfig(config).valid) =>
          /\ out(<<"src", "controllers", "auth.controller.js">>) \in DOMAIN files
          /\ out(<<"src", "routes", "auth.routes.js">>) \in DOMAIN files
          /\ out(<<"src", "middleware", "auth.middleware.js">>) \in DOMAIN files
          /\ out(<<"src", "services", "email.service.js">>) \in DOMAIN files
     /\ (pc = "webDone" /\ Has(convertConfig(config), "otp")) =>
          /\ <<"src", "controllers", "auth.controller.js">> \in web
          /\ <<"src", "routes", "auth.routes.js">> \in web
          /\ <<"src", "middleware", "auth.middleware.js">> \in web
          /\ <<"src", "services", "email.service.js">> \in web

(***************************************************************************)
(* Claims about the files generateBackend chooses (SpecGen).               *)
(***************************************************************************)
\* The run wrote the file at this place under the project directory.
Emitted(segs) ==
  \E i \in DOMAIN writeLog : writeLog[i].path = ProjectPath(config, segs)

AuthController == <<"src", "controllers", "auth.controller.js">>
AuthRoutes == <<"src", "routes", "auth.routes.js">>
AuthMiddleware == <<"src", "middleware", "auth.middleware.js">>
EmailService == <<"src", "services", "email.service.js">>

\* C11: generateBackend writes the email service file only when 'otp' is
\* among the features; with 'jwt' and without 'otp' the auth controller,
\* routes and middleware are written and the email service is not.
C11_EmailServiceOnlyWithOtp ==
  /\ (BackendRun /\ Emitted(EmailService)) => Has(config, "otp")
  /\ (pc = "generated" /\ Has(config, "jwt") /\ ~Has(config, "otp")) =>
       /\ Emitted(AuthController) /\ Emitted(AuthRoutes)
       /\ Emitted(AuthMiddleware)
       /\ ~Emitted(EmailService)

\* C11 with both triggers of the email service: it is written only when
\* 'jwt' and one of 'otp', 'passwordReset' are among the features; with
\* 'jwt' and neither of the two, the auth controller, routes and middleware
\* are written and the email service is not.
C11_EmailServiceOnlyWithTrigger ==
  /\ (BackendRun /\ Emitted(EmailService)) =>
       /\ Has(config, "jwt")
       /\ Has(config, "otp") \/ Has(config, "passwordReset")
  /\ (pc = "generated" /\ Has(config, "jwt") /\ ~Has(config, "otp")
        /\ ~Has(config, "passwordReset")) =>
       /\ Emitted(AuthController) /\ Emitted(AuthRoutes)
       /\ Emitted(AuthMiddleware)
       /\ ~Emitted(EmailService)
  /\ (pc = "generated" /\ Has(config, "jwt")
        /\ (Has(config, "otp") \/ Has(config, "passwordReset"))) =>
       Emitted(EmailService)

\* C11's case: a finished run for 'jwt' without 'otp' and 'passwordReset'.
C11_Witness ==
  /\ pc = "generated"
  /\ Has(config, "jwt") /\ ~Has(config, "otp")
  /\ ~Has(config, "passwordReset")
  /\ Emitted(AuthMiddleware)

UserModel == <<"src", "models", "User.model.js">>
PrismaSchema == <<"prisma", "schema.prisma">>
PrismaClient == <<"src", "utils", "prisma.js">>

\* C12: in generateBackend the persistence files follow config.database
\* alone: the Mongoose User model is written iff the database is 'mongodb',
\* the Prisma schema and client are written otherwise, whatever the
\* features are.
C12_PersistenceFollowsDatabase ==
  /\ BackendRun =>
       /\ Emitted(UserModel) => config.database = "mongodb"
       /\ (Emitted(PrismaSchema) \/ Emitted(PrismaClient)) =>
            config.database # "mongodb"
  /\ pc = "generated" =>
       IF config.database = "mongodb"
       THEN Emitted(UserModel)
       ELSE Emitted(PrismaSchema) /\ Emitted(PrismaClient)

\* C12's case: a finished run for SQLite with 'jwt' and 'redis' selected,
\* which wrote the Prisma files.
C12_Witness ==
  /\ pc = "generated"
  /\ config.database = "sqlite"
  /\ Has(config, "jwt") /\ Has(config, "redis")
  /\ Emitted(PrismaSchema) /\ Emitted(PrismaClient)

Manifest == <<"package.json">>
EntryPoint == <<"src", "server.js">>
Composition == <<"src", "app.js">>
EnvTemplate == <<".env.example">>
RefreshTokenModel == <<"src", "models", "RefreshToken.model.js">>
ValidationUtil == <<"src", "utils", "validation.js">>
RedisUtil == <<"src", "utils", "redis.js">>

BaseFiles == {Manifest, EntryPoint, Composition, EnvTemplate}

\* The features whose selection makes generateBackend write the file.
ContributedBy(segs) ==
  CASE segs \in {AuthController, AuthRoutes, AuthMiddleware,
                 RefreshTokenModel} -> {"jwt"}
    [] segs = EmailService -> {"otp", "passwordReset"}
    [] segs = ValidationUtil -> {"validation"}
    [] segs = RedisUtil -> {"redis"}
    [] OTHER -> {}

\* The place of a feature in the declaration order of the vocabulary.
DeclarationIndex(t) ==
  CHOOSE i \in DOMAIN FeatureChoices : FeatureChoices[i] = t

IsClientFile(segs) == segs # <<>> /\ Head(segs) = "client"

\* C13: generateBackend writes the base files (package.json, src/server.js,
\* src/app.js, .env.example) before every feature-contributed file, the
\* feature-contributed files in the declaration order of the feature
\* vocabulary, and the client/ files after every other file.
C13_BaseThenFeaturesThenFrontend ==
  BackendRun =>
    \A i, j \in DOMAIN writeLog :
      i < j =>
        LET first == writeLog[i].path.segs
            second == writeLog[j].path.segs
        IN /\ second \in BaseFiles => ContributedBy(first) = {}
           /\ second \in BaseFiles => ~IsClientFile(first)
           /\ IsClientFile(first) => IsClientFile(second)
           /\ (ContributedBy(first) # {} /\ ContributedBy(second) # {}) =>
                \E a \in ContributedBy(first), b \in ContributedBy(second) :
                  DeclarationIndex(a) <= DeclarationIndex(b)

\* The three parts of C13 taken alone, to tell which of them the code
\* breaks: base before features, features in declaration order, client
\* files last.
BaseBeforeFeatures ==
  BackendRun =>
    \A i, j \in DOMAIN writeLog :
      (i < j /\ writeLog[j].path.segs \in BaseFiles) =>
        ContributedBy(writeLog[i].path.segs) = {}

FeaturesInDeclarationOrder ==
  BackendRun =>
    \A i, j \in DOMAIN writeLog :
      (i < j /\ ContributedBy(writeLog[i].path.segs) # {}
             /\ ContributedBy(writeLog[j].path.segs) # {}) =>
        \E a \in ContributedBy(writeLog[i].path.segs),
           b \in ContributedBy(writeLog[j].path.segs) :
          DeclarationIndex(a) <= DeclarationIndex(b)

ClientFilesLast ==
  BackendRun =>
    \A i, j \in DOMAIN writeLog :
      (i < j /\ IsClientFile(writeLog[i].path.segs)) =>
        IsClientFile(writeLog[j].path.segs)

\* The client/ paths among the files written to the disk, and among the
\* entries of an archive.
ClientPaths(entries) ==
  {p \in Range(PathsOf(entries)) : IsClientFile(p.segs)}

ArchiveClientPaths(entries) ==
  {p \in Range(PathsOf(entries)) : IsClientFile(p)}

ClientManifest == <<"client", "package.json">>

\* The client subtree generateTemplate adds for a frontend.
ClientTree == Range(PathsOf(TemplateFrontendFiles([frontend |-> "react"])))

\* The answers select a frontend: one is wanted and its framework is not
\* 'none'.
FrontendSelected ==
  /\ config.includeFrontend
  /\ "frontendFramework" \in DOMAIN config =>
       config.frontendFramework # "none"

\* C14: files under client/ are emitted iff the frontend selection is not
\* 'none' (generateBackend: includeFrontend and frontendFramework # 'none';
\* generateTemplate: frontend # 'none'); only the frontend step places
\* files under client/; and the client/ files are the same set for every
\* backend feature selection.
C14_ClientFilesFollowFrontend ==
  /\ BackendRun =>
       /\ ClientPaths(writeLog) # {} => FrontendSelected
       /\ ClientPaths(writeLog) \subseteq {ProjectPath(config, ClientManifest)}
       /\ \A i \in DOMAIN writeLog :
            (writeLog[i].path \in ClientPaths(writeLog))
              <=> (writeLog[i].content.source = "client/package.json")
  /\ pc = "generated" =>
       (Emitted(ClientManifest) <=> FrontendSelected)
  /\ pc \in {"templateDone", "templateFailed"} =>
       /\ ArchiveClientPaths(zip) =
            (IF config.frontend # "none" THEN ClientTree ELSE {})
       /\ \A i \in DOMAIN zip :
            IsClientFile(zip[i].path) =>
              i > Len(zip) - Cardinality(ClientTree)

\* C14's case: a finished generateBackend run with a frontend and with
\* backend features selected.
C14_Witness ==
  /\ pc = "generated"
  /\ FrontendSelected
  /\ Has(config, "jwt") /\ Has(config, "redis")
  /\ Emitted(ClientManifest)
  /\ Cardinality(ClientTree) = 16

(***************************************************************************)
(* Claims that compare runs (SpecGen).                                     *)
(***************************************************************************)
\* Lines 48-63: every filesystem call of a generateBackend run that meets
\* no failure, in call order.
BackendOps(c) ==
     <<EnsureDir(ProjectPath(c, <<>>))>>
  \o PackageJsonOps(c) \o ServerOps(c) \o DatabaseOps(c) \o AuthOps(c)
  \o UtilsOps(c) \o EnvironmentOps(c)
  \o (IF WantsFrontend(c) THEN FrontendOps(c) ELSE <<>>)
  \o ReadmeOps(c)

\* The files a list of filesystem calls writes, in order.
Writes(ops) ==
  LET w == SelectSeq(ops, LAMBDA op : op.op = "writeFile")
  IN [i \in DOMAIN w |-> [path |-> w[i].path, content |-> w[i].content]]

\* The configuration with its features as the set of its tokens, each once,
\* in the declaration order.
Deduplicated(c) ==
  [c EXCEPT !.features = SelectFrom(FeatureChoices, Range(c.features))]

\* How many of the files written lie at this place.
TimesEmitted(segs) ==
  Cardinality({i \in DOMAIN writeLog :
                 writeLog[i].path = ProjectPath(config, segs)})

\* C15: the files generateBackend emits depend on the set of feature tokens
\* only: with a token listed twice or out of order, or with the email
\* service triggered by both 'otp' and 'passwordReset', every file is
\* written once and the output is that of the deduplicated features.
C15_OutputOfFeatureSet ==
  /\ BackendRun =>
       \A i \in DOMAIN writeLog : TimesEmitted(writeLog[i].path.segs) = 1
  /\ pc = "generated" =>
       writeLog = Writes(BackendOps(Deduplicated(config)))

\* C15's case: a finished run whose features list 'otp' twice, out of
\* order, next to 'passwordReset'; the email service was written.
C15_Witness ==
  /\ pc = "generated"
  /\ config.features = <<"passwordReset", "otp", "jwt", "otp">>
  /\ Deduplicated(config).features = <<"jwt", "otp", "passwordReset">>
  /\ TimesEmitted(EmailService) = 1

IsPrefix(s, t) == Len(s) <= Len(t) /\ s = SubSeq(t, 1, Len(s))

C17_ConfigurationNeverMutated ==
  [][/\ config' = config
     /\ "sanitizedName" \notin DOMAIN config']_vars

\* C17's case: generateTemplate ended for a name that sanitizing
\* changes; the derived name was logged and the name given is intact.
C17_Witness ==
  /\ pc = "templateFailed"
  /\ config.projectName = <<"Z", " ", "!">>
  /\ console[1].detail = <<"z">>
  /\ DOMAIN config =
       {"projectName", "backend", "frontend", "database", "auth", "features"}

(***************************************************************************)
(* More claims about validateConfig (SpecValidate).                        *)
(***************************************************************************)
\* C18: validateConfig performs no I/O, for no configuration: a call
\* prints nothing and touches no file, its one effect is the result it
\* returns, and that result is fixed by the configuration.
C18_ValidateIsPure ==
  Called =>
    /\ console = <<>>
    /\ DiskUntouched
    /\ Returned =>
         /\ validation.errors = ValidateErrors(config)
         /\ validation.valid = (validation.errors = <<>>)

(***************************************************************************)
(* Claims about generateTemplate (SpecGen).                                *)
(***************************************************************************)
\* C19: generateTemplate runs to completion without raising, for every
\* configuration built from the configurator's enums.
C19_GenerateTemplateCompletes ==
  /\ pc # "templateFailed"
  /\ pc \in {"generateAsync", "templateDone"} => zip = TemplateFiles(config)

(***************************************************************************)
(* Claims about the package.json of generateBackend (SpecGen).             *)
(***************************************************************************)
\* The package.json the run wrote.
WrittenManifest == files[ProjectPath(config, Manifest)]

\* C20: for postgresql, mysql and sqlite the package.json generateBackend
\* writes lists @prisma/client and prisma among its dependencies, as the
\* Prisma schema, the Prisma client and the db:* scripts of the same run
\* need.
C20_PrismaDependencies ==
  (pc = "generated" /\ config.database \in {"postgresql", "mysql", "sqlite"}) =>
    /\ Emitted(PrismaSchema) /\ Emitted(PrismaClient)
    /\ {"db:generate", "db:push", "db:migrate", "db:studio"}
         \subseteq WrittenManifest.scripts
    /\ {"@prisma/client", "prisma"} \subseteq WrittenManifest.deps

(***************************************************************************)
(* The local modules the emitted files import.                             *)
(***************************************************************************)
\* web-generator.js: the relative imports in the text of each file, as
\* paths of the output.
WebImports(path) ==
  CASE path = <<"src", "server.js">> -> {<<"src", "app.js">>}
    [] path = <<"src", "controllers", "auth.controller.js">> ->
         {<<"src", "models", "User.model.js">>}
    [] path = <<"src", "routes", "auth.routes.js">> ->
         {<<"src", "controllers", "auth.controller.js">>}
    [] OTHER -> {}

\* template-generator.js: the relative imports in the text each content
\* function returns for the configuration, as paths of the archive.
TemplateImports(c, path) ==
  LET src(f) == <<"server", "src">> \o f
      mongo == Is(c, "database", "mongodb")
  IN CASE path = src(<<"app.js">>) ->
            {src(<<"routes", "auth.routes.js">>), src(<<"lib", "redis.lib.js">>)}
       [] path = src(<<"server.js">>) ->
            {src(<<"app.js">>),
             src(<<"utils", "registrationCleanup.utils.js">>)}
            \cup (IF mongo THEN {} ELSE {src(<<"utils", "prisma.js">>)})
       [] path = src(<<"routes", "auth.routes.js">>) ->
            {src(<<"controllers", "auth.controller.js">>),
             src(<<"utils", "validation.utils.js">>)}
       [] path = src(<<"controllers", "auth.controller.js">>) ->
            {src(<<"utils", "generateToken.utils.js">>),
             src(<<"services", "auth.services.js">>)}
            \cup (IF mongo
                  THEN {src(<<"models", "User.model.js">>),
                        src(<<"models", "RefreshToken.model.js">>)}
                  ELSE {})
       [] path = src(<<"services", "auth.services.js">>) ->
            {src(<<"utils", "clearRedisCache.utils.js">>),
             src(<<"utils", "registrationSession.utils.js">>),
             src(<<"utils", "userAuthentication.utils.js">>)}
            \cup (IF mongo THEN {src(<<"models", "User.model.js">>)} ELSE {})
       [] path = src(<<"utils", "generateToken.utils.js">>) ->
            IF mongo THEN {src(<<"models", "RefreshToken.model.js">>)} ELSE {}
       [] path = src(<<"utils", "validation.utils.js">>) ->
            {src(<<"utils", "safeRegex.utils.js">>)}
            \cup (IF mongo THEN {src(<<"models", "User.model.js">>)} ELSE {})
       [] path = src(<<"utils", "registrationSession.utils.js">>) ->
            {src(<<"lib", "redis.lib.js">>)}
       [] path = src(<<"utils", "registrationCleanup.utils.js">>) ->
            {src(<<"lib", "redis.lib.js">>)}
       [] path = src(<<"middleware", "auth.middleware.js">>) ->
            {src(<<"models", "User.model.js">>)}
       [] OTHER -> {}

\* C21: the generated tree is consistent: every local module imported by a
\* file that generateWebBackend or generateTemplate emitted is emitted in
\* the same output.
C21_ImportsAreEmitted ==
  /\ pc = "webDone" =>
       \A i \in DOMAIN webFiles :
         WebImports(webFiles[i].path) \subseteq Range(PathsOf(webFiles))
  /\ pc \in {"templateDone", "templateFailed"} =>
       \A i \in DOMAIN zip :
         TemplateImports(config, zip[i].path) \subseteq Range(PathsOf(zip))

\* C21 for generateWebBackend alone.
WebImportsAreEmitted ==
  pc = "webDone" =>
    \A i \in DOMAIN webFiles :
      WebImports(webFiles[i].path) \subseteq Range(PathsOf(webFiles))

(***************************************************************************)
(* Claims about the Configurator wizard (SpecWizard).                      *)
(***************************************************************************)
\* C22: in the Configurator currentStep stays within 1..5 whatever Next
\* and Previous do (Previous changes nothing at step 1, Next nothing at
\* step 5), and a handleGenerate is started only from step 5.
C22_StepWithinBounds ==
  /\ wizard.currentStep \in 1..5
  /\ [][/\ wizard'.currentStep \in 1..5
        /\ Len(wizard'.calls) > Len(wizard.calls) => wizard.currentStep = 5]_vars

\* A Configurator that was stepped forward to step 5 and back to step 1,
\* and that has a generation, started at step 5, in flight.
C22_Witness ==
  /\ wizard.view = "configurator"
  /\ wizard.currentStep = 1
  /\ wizard.calls # <<>>

(***************************************************************************)
(* Two generateBackend runs started together for one project (SpecRace).   *)
(***************************************************************************)
Runs == {1, 2}

\* A run at its first line: nothing checked, nothing written.
RunStarted == [pc |-> "pathExists", error |-> NoError, log |-> <<>>]

\* generator.js lines 43-45: the run learns whether the target exists; a
\* run that finds it throws, the other goes on after its await.
RaceCheck ==
  /\ pc = "race"
  /\ \E r \in Runs :
       /\ race[r].pc = "pathExists"
       /\ race' = [race EXCEPT ![r] =
            IF pathExists(dirs, files, ProjectPath(config, <<>>))
            THEN [@ EXCEPT !.pc = "failed", !.error = ExistsError(config)]
            ELSE [@ EXCEPT !.pc = "ensureDir"]]
  /\ UNCHANGED <<config, pc, validation, console, dirs, files, writeLog,
                 error, before, proceed, exitCode, zip, saved, webFiles,
                 wizard>>

\* The filesystem calls of one run from the given position on: they end
\* at the first call the disk refuses.
RaceOps(r, ops, next) ==
  LET st == ApplyOps([dirs |-> dirs, files |-> files, log |-> race[r].log,
                      ok |-> TRUE], ops)
  IN /\ dirs' = st.dirs
     /\ files' = st.files
     /\ race' = [race EXCEPT ![r] =
          [pc |-> IF st.ok THEN next ELSE "failed",
           error |-> IF st.ok THEN NoError
                     ELSE [code |-> "EIO", path |-> NoPath,
                           message |-> <<"rejected">>],
           log |-> st.log]]
     /\ UNCHANGED <<config, pc, validation, console, writeLog, error, before,
                    proceed, exitCode, zip, saved, webFiles, wizard>>

\* Line 48: ensureDir(projectPath), which succeeds on a directory that is
\* already there.
RaceEnsureDir ==
  /\ pc = "race"
  /\ \E r \in Runs :
       /\ race[r].pc = "ensureDir"
       /\ RaceOps(r, <<EnsureDir(ProjectPath(config, <<>>))>>, "generate")

\* Lines 51-61: the generating steps of the run, one after the other.
RaceGenerate ==
  /\ pc = "race"
  /\ \E r \in Runs :
       /\ race[r].pc = "generate"
       /\ RaceOps(r, Tail(BackendOps(config)), "generated")

NextRace == RaceCheck \/ RaceEnsureDir \/ RaceGenerate

\* The projects the two runs are started for: without and with the auth
\* files, for every database.
RaceConfigs ==
  {c \in BackendConfigs :
     c.features \in {<<>>, <<"jwt", "otp">>} /\ ~c.includeFrontend}

\* Both runs are started before either is awaited, on any disk.
InitRace ==
  /\ pc = "race"
  /\ config \in RaceConfigs
  /\ before \in DisksBefore(config)
  /\ dirs = before.dirs
  /\ files = before.files
  /\ race = [r \in Runs |-> RunStarted]
  /\ wizard = NoWizard
  /\ validation = NotValidated
  /\ console = <<>>
  /\ writeLog = <<>>
  /\ error = NoError
  /\ proceed = FALSE
  /\ exitCode = -1
  /\ zip = <<>>
  /\ saved = ""
  /\ webFiles = <<>>

SpecRace == InitRace /\ [][NextRace]_vars

\* C23: two generateBackend runs started together for one projectName
\* never both pass the directory-exists check: at most one of them goes
\* on to create the directory and write files, and once both have ended
\* the other has failed with the 'already exists' error and written
\* nothing.
C23_OnlyOneRunPasses ==
  \A r, s \in Runs :
    r # s =>
      /\ ~(race[r].pc \notin {"pathExists", "failed"}
           /\ race[s].pc \notin {"pathExists", "failed"})
      /\ race[r].pc = "generated" /\ race[s].pc \in {"generated", "failed"}
           => /\ race[s].pc = "failed"
              /\ race[s].error = ExistsError(config)
              /\ race[s].log = <<>>

C25_GeneratedOnlyAfterSuccess ==
  /\ [][/\ (~wizard.generated /\ wizard'.generated) =>
             /\ wizard.calls # <<>>
             /\ Head(wizard.calls).stage = "generateTemplate"
             /\ Head(wizard.calls).outcome = "resolved"
        /\ (/\ wizard.calls # <<>>
            /\ Head(wizard.calls).stage = "generateTemplate"
            /\ Head(wizard.calls).outcome = "rejected"
            /\ Len(wizard'.calls) < Len(wizard.calls)) =>
             /\ wizard'.generated = wizard.generated
             /\ ~wizard'.generating]_vars
  /\ (wizard.generating ~> ~wizard.generating)

\* A Configurator whose generation was rejected: the failure is logged,
\* generated is false, generating is false again and the Generate button
\* of step 5 is shown.
C25_Witness ==
  /\ wizard.view = "configurator"
  /\ wizard.currentStep = 5
  /\ wizard.logged = "Generation failed:"
  /\ ~wizard.generated
  /\ ~wizard.generating
  /\ wizard.calls = <<>>

\* C26: a Configurator has at most one generateTemplate call in flight:
\* no handleGenerate is started while generating is true, and none once
\* generated is true.
C26_OneGenerationInFlight ==
  /\ [](Len(wizard.calls) <= 1)
  /\ [][Len(wizard'.calls) > Len(wizard.calls) =>
          ~wizard.generating /\ ~wizard.generated]_vars

\* A Configurator at step 5 with its one call inside generateTemplate and
\* generating true.
C26_Witness ==
  /\ wizard.view = "configurator"
  /\ wizard.currentStep = 5
  /\ wizard.generating
  /\ Len(wizard.calls) = 1
  /\ wizard.calls[1].stage = "generateTemplate"

\* C27: the stack of the Configurator is always 'express': whatever the
\* sequence of Get Started, template-card clicks, stack-button clicks and
\* Back, no stack in development becomes config.stack, and none is passed
\* to generateTemplate.
C27_StackIsExpress ==
  /\ wizard.config.stack = "express"
  /\ wizard.selectedTemplate \in {"null", "express"}
  /\ \A i \in DOMAIN wizard.calls :
       /\ wizard.calls[i].stage = "import" =>
            wizard.calls[i].config.stack = "express"
       /\ wizard.calls[i].stage = "generateTemplate" =>
            wizard.calls[i].passed.backend = "express"

\* A Configurator opened from the Express template card whose
\* configuration has reached generateTemplate.
C27_Witness ==
  /\ wizard.view = "configurator"
  /\ wizard.selectedTemplate = "express"
  /\ wizard.calls # <<>>
  /\ wizard.calls[1].stage = "generateTemplate"
  /\ wizard.calls[1].passed.backend = "express"

(***************************************************************************)
(* More claims about the generators (SpecGen).                             *)
(***************************************************************************)
\* C28: for every web configuration c, validateConfig(convertConfig(c))
\* reports neither a feature-dependency nor an email-dependency
\* violation: convertConfig lists 'otp' and 'passwordReset' only together
\* with 'jwt', and names an email provider other than 'none' whenever it
\* lists either of them.
C28_ConvertedConfigPassesDependencyRules ==
  pc \in {"generateWebBackend", "webDone"} =>
    LET converted == convertConfig(config)
        has(t) == \E i \in DOMAIN converted.features : converted.features[i] = t
        result == validateConfig(converted)
    IN /\ has("otp") \/ has("passwordReset") =>
            /\ has("jwt")
            /\ converted.emailService # "none"
       /\ ~result.threw
       /\ \A i \in DOMAIN result.errors :
            result.errors[i] \notin {MsgOtp, MsgReset, MsgEmail}

\* A web run for 'jwt-otp' authentication: the converted configuration
\* lists 'jwt', 'otp' and 'passwordReset' and names 'mailtrap'.
C28_Witness ==
  /\ pc = "webDone"
  /\ config.auth.type = "jwt-otp"
  /\ includes(convertConfig(config).features, "otp")
  /\ includes(convertConfig(config).features, "passwordReset")
  /\ convertConfig(config).emailService = "mailtrap"
  /\ validateConfig(convertConfig(config)).errors = <<>>

\* The name the archive of a project is meant to be saved under.
ExpectedArchiveName(c) ==
  (IF sanitizeProjectName(c.projectName) # <<>>
   THEN sanitizeProjectName(c.projectName) ELSE <<"devstack">>)
  \o <<"-template.zip">>

\* C29: the archive generateTemplate produces is saved as
\* '<sanitizedName>-template.zip', sanitizedName being
\* sanitizeProjectName(config.projectName); 'devstack' stands in only for
\* an empty sanitized name.
C29_ArchiveNamedAfterProject ==
  pc \in {"templateDone", "templateFailed"} =>
    /\ ArchiveName(config) = ExpectedArchiveName(config)
    /\ saved # ""
    /\ saved = ExpectedArchiveName(config)

\* The name line 288 computes is the expected one, whether or not the run
\* gets as far as saving.
ArchiveNameIsExpected ==
  pc \in {"generateTemplate", "templateDone", "templateFailed"} =>
    ArchiveName(config) = ExpectedArchiveName(config)

\* C30: for database 'none' generateBackend emits no persistence-layer
\* artifact (no Mongoose model, no Prisma schema, no Prisma client
\* utility) and puts no ORM dependency and no db:* script into
\* package.json.
C30_NoPersistenceWithoutDatabase ==
  (BackendRun /\ pc = "generated" /\ config.database = "none") =>
    /\ ~Emitted(UserModel)
    /\ ~Emitted(RefreshTokenModel)
    /\ ~Emitted(PrismaSchema)
    /\ ~Emitted(PrismaClient)
    /\ WrittenManifest.deps \cap {"mongoose", "@prisma/client", "prisma"} = {}
    /\ WrittenManifest.scripts
         \cap {"db:generate", "db:push", "db:migrate", "db:studio"} = {}

====
